---- MODULE Spec2Model ----
(***************************************************************************)
(* Model of openapi/common.go: the schema-driven merge of a remote payload *)
(* with the local Terraform state (convertPayloadToLocalStateDataValue,    *)
(* convertObjectToLocalStateData), the canonical hasher                    *)
(* (hashComplexObject), the ignore-order policy                            *)
(* (processIgnoreOrderIfEnabled), the state writer                         *)
(* (updateStateWithPayloadDataAndOptions) and setStateID.                  *)
(*                                                                         *)
(* Go values (interface{}) are tagged records [k |-> kind, v |-> payload]: *)
(*   nil, string, int, float64 (in tenths), bool, map, list, set, error.   *)
(* Go strings are TLA+ strings; their bytes (needed by the hasher and by   *)
(* sort.Strings) come from the table Bytes.                                *)
(***************************************************************************)
EXTENDS Integers, Sequences, FiniteSets, TLC

\* input: the operation invoked and its arguments
\* pc:    "start" before the operation, "update" inside the loop of
\*        updateStateWithPayloadDataAndOptions, "done" after it returned
\* result: what a pure operation returned
\* state: the fields of the ResourceData (resourceLocalData)
\* id:    the ID of the ResourceData, a Go string as bytes
\* todo:  the payload properties the range loop has not visited yet
\* ret:   the error returned by a state-writing operation
VARIABLES input, pc, result, state, id, todo, ret

\* The function returned by crudWithContext, called by the host on one
\* ResourceData:
\* invocation:   how many times the host has called it so far
\* wrapper:      "idle" between calls, "select" while a call waits in the select
\* ctxDone:      whether the context of the current call is done
\* goroutines:   goroutines[k] is the goroutine the k-th call started: where it
\*               is, how many accesses to the ResourceData crudFunc still
\*               makes, and the content of the buffered channel errChan
\* resourceData: the goroutine that accessed the ResourceData last (0: none)
\* diags:        what the last call returned
VARIABLES invocation, wrapper, ctxDone, goroutines, resourceData, diags

mergeVars == <<input, pc, result, state, id, todo, ret>>

crudVars == <<invocation, wrapper, ctxDone, goroutines, resourceData, diags>>

vars == <<input, pc, result, state, id, todo, ret, invocation, wrapper, ctxDone, goroutines, resourceData, diags>>

(***************************************************************************)
(* Go values                                                               *)
(***************************************************************************)
Nil == [k |-> "nil", v |-> 0]

StrV(s) == [k |-> "string", v |-> s]

IntV(n) == [k |-> "int", v |-> n]

\* a float64 with one decimal digit: FloatV(15) is 1.5, FloatV(420) is 42.0
FloatV(tenths) == [k |-> "float64", v |-> tenths]

BoolV(b) == [k |-> "bool", v |-> b]

\* map[string]interface{}: a function from key strings to values
MapV(f) == [k |-> "map", v |-> f]

\* []interface{}
ListV(s) == [k |-> "list", v |-> s]

\* *schema.Set: the hash function F it was built with and its map m from
\* hash code to item
SetV(F, m) == [k |-> "set", v |-> [F |-> F, m |-> m]]

\* a Go error value
ErrV(msg, name) == [k |-> "error", v |-> [msg |-> msg, name |-> name]]

\* a (value, error) pair returned by a Go function; panic marks a run-time
\* panic (a failed type assertion), after which there is no return value
Ret(val, err) == [val |-> val, err |-> err, panic |-> FALSE]

Panic == [val |-> Nil, err |-> Nil, panic |-> TRUE]

EmptyMap == <<>>

\* m[key] of a Go map: nil when the key is absent
MapGet(m, key) == IF key \in DOMAIN m THEN m[key] ELSE Nil

MapPut(m, key, val) == [x \in (DOMAIN m) \cup {key} |-> IF x = key THEN val ELSE m[x]]

(***************************************************************************)
(* Bytes of the strings of the model                                       *)
(***************************************************************************)
Bytes ==
  [x \in
    {"<nil>", "true", "false", "id", "name", "size", "secret", "tags",
     "rules", "ruleName", "rule_name", "port", "token", "nodes",
     "cfg", "plain", "ratio", "live", "broken", "brokenSet", "weird",
     "opaque", "zone", "a", "b", "c", "hg", "fr", "nh", "py", "extra",
     "meta", "vault"} |->
     CASE x = "<nil>" -> <<60, 110, 105, 108, 62>>
          [] x = "true" -> <<116, 114, 117, 101>>
          [] x = "false" -> <<102, 97, 108, 115, 101>>
          [] x = "id" -> <<105, 100>>
          [] x = "name" -> <<110, 97, 109, 101>>
          [] x = "size" -> <<115, 105, 122, 101>>
          [] x = "secret" -> <<115, 101, 99, 114, 101, 116>>
          [] x = "tags" -> <<116, 97, 103, 115>>
          [] x = "rules" -> <<114, 117, 108, 101, 115>>
          [] x = "ruleName" -> <<114, 117, 108, 101, 78, 97, 109, 101>>
          [] x = "rule_name" -> <<114, 117, 108, 101, 95, 110, 97, 109, 101>>
          [] x = "port" -> <<112, 111, 114, 116>>
          [] x = "token" -> <<116, 111, 107, 101, 110>>
          [] x = "nodes" -> <<110, 111, 100, 101, 115>>
          [] x = "cfg" -> <<99, 102, 103>>
          [] x = "plain" -> <<112, 108, 97, 105, 110>>
          [] x = "ratio" -> <<114, 97, 116, 105, 111>>
          [] x = "live" -> <<108, 105, 118, 101>>
          [] x = "broken" -> <<98, 114, 111, 107, 101, 110>>
          [] x = "brokenSet" -> <<98, 114, 111, 107, 101, 110, 83, 101, 116>>
          [] x = "weird" -> <<119, 101, 105, 114, 100>>
          [] x = "opaque" -> <<111, 112, 97, 113, 117, 101>>
          [] x = "zone" -> <<122, 111, 110, 101>>
          [] x = "a" -> <<97>>
          [] x = "b" -> <<98>>
          [] x = "c" -> <<99>>
          [] x = "hg" -> <<104, 103>>
          [] x = "fr" -> <<102, 114>>
          [] x = "nh" -> <<110, 104>>
          [] x = "py" -> <<112, 121>>
          [] x = "extra" -> <<101, 120, 116, 114, 97>>
          [] x = "meta" -> <<109, 101, 116, 97>>
          [] x = "vault" -> <<118, 97, 117, 108, 116>>]

\* lexicographic byte order, the order of sort.Strings
BytesLess(a, b) ==
  \/ \E i \in 1..Len(b) :
       /\ i <= Len(a)
       /\ a[i] < b[i]
       /\ \A j \in 1..(i - 1) : a[j] = b[j]
  \/ /\ Len(a) < Len(b)
     /\ \A j \in 1..Len(a) : a[j] = b[j]

\* sort.Strings over a set of key strings
RECURSIVE SortStrings(_)
SortStrings(S) ==
  IF S = {} THEN <<>>
  ELSE LET m == CHOOSE x \in S : \A y \in S \ {x} : BytesLess(Bytes[x], Bytes[y])
       IN <<m>> \o SortStrings(S \ {m})

\* decimal digits of a natural number, as bytes
Digits[n \in Nat] == IF n < 10 THEN <<48 + n>> ELSE Digits[n \div 10] \o <<48 + (n % 10)>>

\* strconv.Itoa, and fmt's %v of an int
Itoa(n) == IF n < 0 THEN <<45>> \o Digits[-n] ELSE Digits[n]

\* int(f) of a float64: truncation toward zero
Trunc(tenths) == IF tenths >= 0 THEN tenths \div 10 ELSE -((-tenths) \div 10)

\* fmt's %v of a float64 with one decimal digit: 42.0 prints 42, 1.5 prints 1.5
FormatFloat(tenths) ==
  LET a == IF tenths < 0 THEN -tenths ELSE tenths
      sign == IF tenths < 0 THEN <<45>> ELSE <<>>
  IN IF a % 10 = 0 THEN sign \o Digits[a \div 10]
     ELSE sign \o Digits[a \div 10] \o <<46, 48 + (a % 10)>>

(***************************************************************************)
(* hashcode.String: CRC-32 (IEEE) of the bytes.  A 32-bit word is the pair *)
(* <<high 16 bits, low 16 bits>>.                                          *)
(***************************************************************************)
\* bitwise exclusive or of two naturals
Xor[a \in Nat, b \in Nat] ==
  IF a = 0 THEN b
  ELSE IF b = 0 THEN a
  ELSE ((a + b) % 2) + 2 * Xor[a \div 2, b \div 2]

WordXor(x, y) == <<Xor[x[1], y[1]], Xor[x[2], y[2]]>>

\* x >> n for n < 16
WordShr(x, n) == <<x[1] \div (2 ^ n), (x[2] \div (2 ^ n)) + (x[1] % (2 ^ n)) * (2 ^ (16 - n))>>

\* the reversed IEEE polynomial 0xEDB88320
crcPoly == <<60856, 33568>>

\* n steps of the bitwise CRC on the word w
crcBits[w \in Nat \X Nat, n \in Nat] ==
  IF n = 0 THEN w
  ELSE crcBits[IF w[2] % 2 = 1 THEN WordXor(WordShr(w, 1), crcPoly) ELSE WordShr(w, 1), n - 1]

\* the table of crc32.IEEETable
crcTable == [b \in 0..255 |-> crcBits[<<0, b>>, 8]]

\* crc32's update of crc by the bytes from index i on
crcUpdate[crc \in Nat \X Nat, bytes \in Seq(Nat), i \in Nat] ==
  IF i > Len(bytes) THEN crc
  ELSE crcUpdate[WordXor(crcTable[Xor[crc[2] % 256, bytes[i]]], WordShr(crc, 8)), bytes, i + 1]

\* hashcode.String(s): the checksum is never negative as a 64-bit int
hashcodeString(bytes) == WordXor(crcUpdate[<<65535, 65535>>, bytes, 1], <<65535, 65535>>)

\* fmt's %v of a hash code (an int below 2^32), without leaving 31 bits
WordItoa(w) ==
  LET x == w[1] * 5536 + w[2]
      top == w[1] * 6 + (x \div 10000)
      low == x % 10000
  IN IF top = 0 THEN Digits[low]
     ELSE Digits[top] \o <<48 + (low \div 1000), 48 + ((low \div 100) % 10),
                            48 + ((low \div 10) % 10), 48 + (low % 10)>>

\* fmt.Sprintf("%v", v) of a primitive value
FormatValue(v) ==
  CASE v.k = "nil" -> Bytes["<nil>"]
    [] v.k = "string" -> Bytes[v.v]
    [] v.k = "int" -> Itoa(v.v)
    [] v.k = "float64" -> FormatFloat(v.v)
    [] v.k = "bool" -> IF v.v THEN Bytes["true"] ELSE Bytes["false"]

RECURSIVE hashComplexObject(_)
RECURSIVE hashKeys(_, _)
RECURSIVE hashElems(_)

\* the buffer written for the sorted keys of a map
hashKeys(m, keys) ==
  IF keys = <<>> THEN <<>>
  ELSE Bytes[Head(keys)] \o WordItoa(hashComplexObject(m[Head(keys)])) \o hashKeys(m, Tail(keys))

\* the buffer written for the elements of a slice
hashElems(s) ==
  IF s = <<>> THEN <<>>
  ELSE WordItoa(hashComplexObject(Head(s))) \o hashElems(Tail(s))

hashComplexObject(v) ==
  hashcodeString(
    CASE v.k = "map" -> hashKeys(v.v, SortStrings(DOMAIN v.v))
      [] v.k = "list" -> hashElems(v.v)
      [] OTHER -> FormatValue(v))

\* hashByName: the hash of the element's "name" field ("" when it is no string)
hashByName(v) ==
  LET name == IF v.k = "map" THEN MapGet(v.v, "name") ELSE Nil
  IN hashcodeString(IF name.k = "string" THEN Bytes[name.v] ELSE <<>>)

(***************************************************************************)
(* schema.Set                                                              *)
(***************************************************************************)
\* the hash function F of a *schema.Set applied to an item
SetHash(F, item) ==
  IF F = "hashByName" THEN hashByName(item) ELSE hashComplexObject(item)

\* schema.NewSet(F, []interface{}{})
NewSet(F) == SetV(F, <<>>)

\* Add of schema.Set: the item is stored under its hash code unless the code
\* is already taken
SetPut(s, item, code) ==
  IF code \in DOMAIN s.v.m THEN s
  ELSE SetV(s.v.F, [c \in (DOMAIN s.v.m) \cup {code} |-> IF c = code THEN item ELSE s.v.m[c]])

SetAdd(s, item) == SetPut(s, item, SetHash(s.v.F, item))

RECURSIVE SortCodes(_)
SortCodes(S) ==
  IF S = {} THEN <<>>
  ELSE LET m == CHOOSE x \in S : \A y \in S \ {x} : BytesLess(WordItoa(x), WordItoa(y))
       IN <<m>> \o SortCodes(S \ {m})

\* List of schema.Set: the items in the order of their codes sorted as strings
ItemsAt(m, codes) == [i \in 1..Len(codes) |-> m[codes[i]]]

SetList(s) == ItemsAt(s.v.m, SortCodes(DOMAIN s.v.m))

\* schema.NewSet(F, items)
RECURSIVE NewSetOf(_, _)
NewSetOf(F, items) ==
  IF items = <<>> THEN NewSet(F)
  ELSE SetAdd(NewSetOf(F, SubSeq(items, 1, Len(items) - 1)), items[Len(items)])

(***************************************************************************)
(* SpecSchemaDefinitionProperty                                            *)
(***************************************************************************)
TypeString == "string"

TypeInt == "integer"

TypeFloat == "number"

TypeBool == "boolean"

TypeObject == "object"

TypeList == "list"

TypeSet == "set"

\* a property: Name, its Terraform compliant name, Type, WriteOnly,
\* IgnoreItemsOrder, ArrayItemsType, the properties of its
\* SpecSchemaDefinition, and the legacy block (single-element list) policy
Property(name, tfName, type, writeOnly, ignoreOrder, itemsType, props, legacy) ==
  [Name |-> name, TFName |-> tfName, Type |-> type, WriteOnly |-> writeOnly,
   IgnoreItemsOrder |-> ignoreOrder, ArrayItemsType |-> itemsType,
   Properties |-> props, Legacy |-> legacy]

Primitive(name, type) == Property(name, name, type, FALSE, FALSE, "", <<>>, FALSE)

WriteOnlyString(name) == Property(name, name, TypeString, TRUE, FALSE, "", <<>>, FALSE)

isPrimitiveType(t) == t \in {TypeString, TypeInt, TypeFloat, TypeBool}

isTerraformListOfSimpleValues(property) ==
  property.Type = TypeList /\ isPrimitiveType(property.ArrayItemsType)

isArrayOfObjectsProperty(property) ==
  property.Type = TypeList /\ property.ArrayItemsType = TypeObject

isSetProperty(property) == property.Type = TypeSet

isTerraformSetOfSimpleValues(property) ==
  property.Type = TypeSet /\ isPrimitiveType(property.ArrayItemsType)

isSetOfObjectsProperty(property) ==
  property.Type = TypeSet /\ property.ArrayItemsType = TypeObject

shouldIgnoreOrder(property) == property.Type = TypeList /\ property.IgnoreItemsOrder

shouldUseLegacyTerraformSDKBlockApproachForComplexObjects(property) == property.Legacy

isPropertyNamedID(property) == property.Name = "id"

GetTerraformCompliantPropertyName(property) == property.TFName

\* deep equality of two items of a list
equalItems(itemsType, item1, item2) == item1 = item2

intMax(a, b) == IF a > b THEN a ELSE b

(***************************************************************************)
(* deepConvertArrayToSet, deepConvertArrayToSetMapNew                      *)
(***************************************************************************)
RECURSIVE deepConvertArrayToSet(_, _)
RECURSIVE deepConvertArrayToSetMapNew(_, _)

\* the property of `properties` named key, or Nil
PropertyNamed(properties, key) ==
  IF \E i \in 1..Len(properties) : properties[i].Name = key
  THEN properties[CHOOSE i \in 1..Len(properties) :
                    /\ properties[i].Name = key
                    /\ \A j \in (i + 1)..Len(properties) : properties[j].Name # key]
  ELSE Nil

\* the index of the first result of a loop that ends the loop (a panic or
\* an error), or 0 when every iteration succeeds
FirstFailure(results) ==
  IF \E i \in 1..Len(results) : results[i].panic \/ results[i].err # Nil
  THEN CHOOSE i \in 1..Len(results) :
         /\ results[i].panic \/ results[i].err # Nil
         /\ \A j \in 1..(i - 1) : ~ results[j].panic /\ results[j].err = Nil
  ELSE 0

\* set.Add of each item in turn
RECURSIVE SetAddAll(_, _)
SetAddAll(set, items) ==
  IF items = <<>> THEN set
  ELSE SetAdd(SetAddAll(set, SubSeq(items, 1, Len(items) - 1)), items[Len(items)])

\* lines 284-296: the set of the converted elements, unless a conversion
\* failed (results: the conversion of each element, in order)
deepConvertCollect(results, failed) ==
  IF failed = 0
  THEN Ret(SetAddAll(NewSet("hashComplexObject"), [i \in 1..Len(results) |-> results[i].val]), Nil)
  ELSE IF results[failed].panic THEN Panic
  ELSE Ret(Nil, results[failed].err)

\* lines 284-294: the conversion of each element of the slice
deepConvertElems(property, elems) ==
  [i \in 1..Len(elems) |->
     IF isSetOfObjectsProperty(property)
     THEN deepConvertArrayToSetMapNew(property.Properties, elems[i])
     ELSE Ret(elems[i], Nil)]

\* lines 277-303
deepConvertArrayToSet(property, v) ==
  IF v.k = "list" /\ isSetProperty(property)
  THEN deepConvertCollect(deepConvertElems(property, v.v),
                          FirstFailure(deepConvertElems(property, v.v)))
  ELSE Ret(v, Nil)

\* line 365: convertedValue.(*schema.Set)
AssertSet(r) == IF ~ r.panic /\ r.err = Nil /\ r.val.k # "set" THEN Panic ELSE r

\* lines 354-371: the conversion of the value of each key that names a
\* property (keys: those keys, sorted; the order of the range over the map
\* matters only when two keys fail, which needs two set-of-objects children)
deepConvertKeys(properties, inputMap, keys) ==
  [i \in 1..Len(keys) |->
     IF isSetOfObjectsProperty(PropertyNamed(properties, keys[i]))
     THEN AssertSet(deepConvertArrayToSet(PropertyNamed(properties, keys[i]), inputMap[keys[i]]))
     ELSE Ret(inputMap[keys[i]], Nil)]

\* lines 353-373: newMap, unless a conversion failed
deepConvertMap(keys, results, failed) ==
  IF failed = 0
  THEN Ret(MapV([key \in {keys[i] : i \in 1..Len(keys)} |->
                   results[CHOOSE i \in 1..Len(keys) : keys[i] = key].val]), Nil)
  ELSE IF results[failed].panic THEN Panic
  ELSE Ret(Nil, results[failed].err)

\* the keys of the map that name a property, sorted
DeclaredKeys(properties, inputMap) ==
  SortStrings({key \in DOMAIN inputMap : PropertyNamed(properties, key) # Nil})

\* lines 345-374
deepConvertArrayToSetMapNew(properties, object) ==
  IF object.k # "map" THEN Ret(Nil, ErrV("object is not a map", ""))
  ELSE deepConvertMap(DeclaredKeys(properties, object.v),
                      deepConvertKeys(properties, object.v, DeclaredKeys(properties, object.v)),
                      FirstFailure(deepConvertKeys(properties, object.v,
                                                   DeclaredKeys(properties, object.v))))

(***************************************************************************)
(* convertPayloadToLocalStateDataValue, convertObjectToLocalStateData      *)
(***************************************************************************)
RECURSIVE convertPayloadToLocalStateDataValue(_, _, _, _)
RECURSIVE convertObjectToLocalStateData(_, _, _)

\* lines 411-417: arrayInput, unless an iteration failed
convertArrayCollect(results, failed) ==
  IF failed = 0 THEN Ret(ListV([i \in 1..Len(results) |-> results[i].val]), Nil)
  ELSE IF results[failed].panic THEN Panic
  ELSE Ret(results[failed].err, Nil)

\* the positional loop stops at the end of the remote list
convertArrayItemsRemoteOnly(property, arrayValue, localStateArrayValue) ==
  [arrayIdx \in 1..Len(arrayValue) |->
     convertObjectToLocalStateData(property, arrayValue[arrayIdx],
       IF arrayIdx <= Len(localStateArrayValue) THEN localStateArrayValue[arrayIdx] ELSE Nil)]

\* lines 402-416: the merge made by each iteration of the positional loop
convertArrayItems(property, arrayValue, localStateArrayValue) ==
  [arrayIdx \in 1..intMax(Len(arrayValue), Len(localStateArrayValue)) |->
     convertObjectToLocalStateData(property,
       IF arrayIdx <= Len(arrayValue) THEN arrayValue[arrayIdx] ELSE Nil,
       IF arrayIdx <= Len(localStateArrayValue) THEN localStateArrayValue[arrayIdx] ELSE Nil)]

\* lines 411-417: the first failing iteration decides what is returned
convertArrayReturn(results) == convertArrayCollect(results, FirstFailure(results))

\* lines 389-418: a list of objects, merged by position
convertArrayOfObjects(property, propertyValue, propertyLocalStateValue) ==
  IF propertyValue # Nil /\ propertyValue.k # "list" THEN Panic
  ELSE IF propertyLocalStateValue # Nil /\ propertyLocalStateValue.k # "list" THEN Panic
  ELSE convertArrayReturn(
         convertArrayItems(property,
           IF propertyValue = Nil THEN <<>> ELSE propertyValue.v,
           IF propertyLocalStateValue = Nil THEN <<>> ELSE propertyLocalStateValue.v))

OrNil(matches) == IF matches = <<>> THEN <<Nil>> ELSE matches

\* lines 454-467 and 468-478: the prior states the remote element v1 is
\* merged against: every element of the local list whose hash equals v1's,
\* in the order of the list, or nil alone when there is none
MatchedLocals(v1, localList) ==
  OrNil(SelectSeq(localList, LAMBDA v2 : hashComplexObject(v2) = hashComplexObject(v1)))

PairWith(v1, priors) == [j \in 1..Len(priors) |-> <<v1, priors[j]>>]

\* lines 450-479: the calls of convertObjectToLocalStateData the two loops
\* make, as pairs <<v1, prior state>>, in the order they are made
RECURSIVE SetMergeCalls(_, _)
SetMergeCalls(remoteList, localList) ==
  IF remoteList = <<>> THEN <<>>
  ELSE PairWith(Head(remoteList), MatchedLocals(Head(remoteList), localList))
       \o SetMergeCalls(Tail(remoteList), localList)

\* lines 460-465 and 471-477: setInput, unless a merge failed
convertSetCollect(results, failed) ==
  IF failed = 0
  THEN Ret(SetAddAll(NewSet("hashComplexObject"), [j \in 1..Len(results) |-> results[j].val]), Nil)
  ELSE IF results[failed].panic THEN Panic
  ELSE Ret(results[failed].err, Nil)

\* lines 460-482: the first failing merge decides what is returned
convertSetReturn(results) == convertSetCollect(results, FirstFailure(results))

\* the merge made by each call
convertSetCalls(property, calls) ==
  [j \in 1..Len(calls) |-> convertObjectToLocalStateData(property, calls[j][1], calls[j][2])]

\* lines 450-482: the loop over setValue.List()
convertSetItems(property, remoteList, localList) ==
  convertSetReturn(convertSetCalls(property, SetMergeCalls(remoteList, localList)))

\* lines 439-482: after setValue was computed (conv)
convertSetValue(property, conv, propertyLocalStateValue) ==
  IF conv.panic THEN Panic
  ELSE IF propertyLocalStateValue # Nil /\ propertyLocalStateValue.k # "set" THEN Panic
  ELSE IF conv.err # Nil THEN Ret(conv.err, Nil)
  ELSE IF conv.val.k # "set" THEN Panic
  ELSE convertSetItems(property, SetList(conv.val),
                       IF propertyLocalStateValue = Nil THEN <<>>
                       ELSE SetList(propertyLocalStateValue))

\* lines 425-483: a set of objects
convertSetOfObjects(property, propertyValue, propertyLocalStateValue, isFromAPI) ==
  IF isFromAPI /\ propertyValue # Nil /\ propertyValue.k # "list" THEN Panic
  ELSE convertSetValue(property,
         IF isFromAPI
         THEN deepConvertArrayToSet(property,
                IF propertyValue = Nil THEN ListV(<<>>) ELSE propertyValue)
         ELSE Ret(propertyValue, Nil),
         propertyLocalStateValue)

\* a write-only property takes the remote value
writeOnlyRemote(propertyValue, propertyLocalStateValue) == Ret(propertyValue, Nil)

\* lines 377-379: what is returned for a write-only property
writeOnlyValue(propertyValue, propertyLocalStateValue) == Ret(propertyLocalStateValue, Nil)

\* lines 376-512
convertPayloadToLocalStateDataValue(property, propertyValue, propertyLocalStateValue, isFromAPI) ==
  IF property.WriteOnly THEN writeOnlyValue(propertyValue, propertyLocalStateValue)
  ELSE CASE property.Type = TypeObject ->
              convertObjectToLocalStateData(property, propertyValue, propertyLocalStateValue)
         [] property.Type = TypeList ->
              IF isTerraformListOfSimpleValues(property) THEN Ret(propertyValue, Nil)
              ELSE IF isArrayOfObjectsProperty(property)
              THEN convertArrayOfObjects(property, propertyValue, propertyLocalStateValue)
              ELSE Ret(Nil, ErrV("is supposed to be an array objects", property.Name))
         [] property.Type = TypeSet ->
              IF isTerraformSetOfSimpleValues(property) THEN Ret(propertyValue, Nil)
              ELSE IF isSetOfObjectsProperty(property)
              THEN convertSetOfObjects(property, propertyValue, propertyLocalStateValue, isFromAPI)
              ELSE Ret(Nil, ErrV("is supposed to be an set objects", property.Name))
         [] property.Type = TypeString ->
              IF propertyValue = Nil THEN Ret(Nil, Nil)
              ELSE IF propertyValue.k = "string" THEN Ret(propertyValue, Nil)
              ELSE Panic
         [] property.Type = TypeInt ->
              IF propertyValue = Nil THEN Ret(Nil, Nil)
              ELSE IF propertyValue.k = "int" THEN Ret(propertyValue, Nil)
              ELSE IF propertyValue.k = "float64" THEN Ret(IntV(Trunc(propertyValue.v)), Nil)
              ELSE Panic
         [] property.Type = TypeFloat ->
              IF propertyValue = Nil THEN Ret(Nil, Nil)
              ELSE IF propertyValue.k = "float64" THEN Ret(propertyValue, Nil)
              ELSE Panic
         [] property.Type = TypeBool ->
              IF propertyValue = Nil THEN Ret(Nil, Nil)
              ELSE IF propertyValue.k = "bool" THEN Ret(propertyValue, Nil)
              ELSE Panic
         [] OTHER -> Ret(Nil, ErrV("type not supported", property.Type))

\* lines 540-543: objectInput, unless a child conversion failed
convertObjectCollect(properties, results, failed) ==
  IF failed = 0
  THEN Ret(MapV([key \in {GetTerraformCompliantPropertyName(properties[i]) : i \in 1..Len(properties)} |->
                   results[CHOOSE i \in 1..Len(properties) :
                             /\ GetTerraformCompliantPropertyName(properties[i]) = key
                             /\ \A j \in (i + 1)..Len(properties) :
                                  GetTerraformCompliantPropertyName(properties[j]) # key].val]),
           Nil)
  ELSE IF results[failed].panic THEN Panic
  ELSE Ret(Nil, results[failed].err)

\* lines 532-538: the conversion of each property of the object's schema
convertObjectProperties(properties, mapValue, localStateMapValue) ==
  [i \in 1..Len(properties) |->
     convertPayloadToLocalStateDataValue(properties[i],
       MapGet(mapValue, properties[i].Name),
       MapGet(localStateMapValue, properties[i].Name), FALSE)]

\* lines 523-530: the local state as a map; a single-element list is unwrapped
LocalStateMap(propertyLocalStateValue) ==
  IF propertyLocalStateValue.k = "map" THEN Ret(propertyLocalStateValue, Nil)
  ELSE IF propertyLocalStateValue.k = "list" /\ Len(propertyLocalStateValue.v) = 1
  THEN IF propertyLocalStateValue.v[1].k = "map" THEN Ret(propertyLocalStateValue.v[1], Nil)
       ELSE Panic
  ELSE Ret(MapV(EmptyMap), Nil)

\* the object is returned as a map whatever the policy
convertObjectNoWrap(property, r) == r

\* lines 549-554: the object, as a list of one item under the legacy policy
convertObjectWrap(property, r) ==
  IF r.panic \/ r.err # Nil THEN r
  ELSE IF shouldUseLegacyTerraformSDKBlockApproachForComplexObjects(property)
  THEN Ret(ListV(<<r.val>>), Nil)
  ELSE r

\* the loop of convertObjectToLocalStateData and what it returns
convertObjectLoop(property, results) ==
  convertObjectWrap(property,
    convertObjectCollect(property.Properties, results, FirstFailure(results)))

\* lines 514-555
convertObjectToLocalStateData(property, propertyValue, propertyLocalStateValue) ==
  IF propertyValue # Nil /\ propertyValue.k # "map" THEN Panic
  ELSE IF LocalStateMap(propertyLocalStateValue).panic THEN Panic
  ELSE convertObjectLoop(property,
         convertObjectProperties(property.Properties,
           IF propertyValue = Nil THEN EmptyMap ELSE propertyValue.v,
           LocalStateMap(propertyLocalStateValue).val.v))

(***************************************************************************)
(* processIgnoreOrderIfEnabled                                             *)
(***************************************************************************)
\* the outcome of a function with a single result that panicked
PanicValue == [k |-> "panic", v |-> 0]

\* the inner loop goes on after a match: every remote item equal to the
\* input item is appended
RECURSIVE matchedItemsNoBreak(_, _, _)
matchedItemsNoBreak(property, inputValueArray, remoteValueArray) ==
  IF inputValueArray = <<>> THEN <<>>
  ELSE SelectSeq(remoteValueArray,
         LAMBDA remoteItemValue :
           equalItems(property.ArrayItemsType, Head(inputValueArray), remoteItemValue))
       \o matchedItemsNoBreak(property, Tail(inputValueArray), remoteValueArray)

\* lines 172-179: for each input item, the first remote item equal to it
RECURSIVE matchedItems(_, _, _)
matchedItems(property, inputValueArray, remoteValueArray) ==
  IF inputValueArray = <<>> THEN <<>>
  ELSE LET found == SelectSeq(remoteValueArray,
                      LAMBDA remoteItemValue :
                        equalItems(property.ArrayItemsType, Head(inputValueArray), remoteItemValue))
       IN (IF found = <<>> THEN <<>> ELSE <<Head(found)>>)
          \o matchedItems(property, Tail(inputValueArray), remoteValueArray)

\* the match flag is never reset: no remote item after the first matched
\* one is appended
modifiedItemsStickyMatch(property, inputValueArray, remoteValueArray) ==
  SubSeq(remoteValueArray, 1,
    IF \E j \in 1..Len(remoteValueArray) : \E i \in 1..Len(inputValueArray) :
         equalItems(property.ArrayItemsType, inputValueArray[i], remoteValueArray[j])
    THEN (CHOOSE j \in 1..Len(remoteValueArray) :
            /\ \E i \in 1..Len(inputValueArray) :
                 equalItems(property.ArrayItemsType, inputValueArray[i], remoteValueArray[j])
            /\ \A k \in 1..(j - 1) : \A i \in 1..Len(inputValueArray) :
                 ~ equalItems(property.ArrayItemsType, inputValueArray[i], remoteValueArray[k])) - 1
    ELSE Len(remoteValueArray))

\* lines 180-192: the remote items equal to no input item, in remote order
modifiedItems(property, inputValueArray, remoteValueArray) ==
  SelectSeq(remoteValueArray,
    LAMBDA remoteItemValue :
      ~ \E i \in 1..Len(inputValueArray) :
          equalItems(property.ArrayItemsType, inputValueArray[i], remoteItemValue))

\* with a nil input, the input that is not nil is returned
nilInputOther(inputPropertyValue, remoteValue) ==
  IF remoteValue = Nil THEN inputPropertyValue ELSE remoteValue

\* lines 165-167: what is returned when an input is nil
nilInputResult(inputPropertyValue, remoteValue) == remoteValue

\* lines 164-199
processIgnoreOrderIfEnabled(property, inputPropertyValue, remoteValue) ==
  IF inputPropertyValue = Nil \/ remoteValue = Nil
  THEN nilInputResult(inputPropertyValue, remoteValue)
  ELSE IF shouldIgnoreOrder(property)
  THEN IF inputPropertyValue.k # "list" \/ remoteValue.k # "list" THEN PanicValue
       ELSE ListV(matchedItems(property, inputPropertyValue.v, remoteValue.v)
                  \o modifiedItems(property, inputPropertyValue.v, remoteValue.v))
  ELSE remoteValue

(***************************************************************************)
(* setStateID                                                              *)
(***************************************************************************)
\* resourceSchema.getResourceIdentifier(): the name of the identifier property
getResourceIdentifier(resourceSchema) ==
  IF \E i \in 1..Len(resourceSchema) : isPropertyNamedID(resourceSchema[i])
  THEN Ret(StrV("id"), Nil)
  ELSE Ret(Nil, ErrV("could not find any identifier property", ""))

\* lines 565-587: the outcome of setStateID on a resource whose ID is oldID:
\* the ID afterwards (a Go string, as bytes) and the error returned
setStateID(resourceSchema, oldID, payloadMap) ==
  LET identifier == getResourceIdentifier(resourceSchema)
      value == MapGet(payloadMap, identifier.val.v)
  IN IF identifier.err # Nil THEN [id |-> oldID, ret |-> identifier.err]
     ELSE IF value = Nil
     THEN [id |-> oldID, ret |-> ErrV("is missing mandatory identifier property", identifier.val.v)]
     ELSE CASE value.k = "int" -> [id |-> Itoa(value.v), ret |-> Nil]
            [] value.k = "float64" -> [id |-> Itoa(Trunc(value.v)), ret |-> Nil]
            [] value.k = "string" -> [id |-> Bytes[value.v], ret |-> Nil]
            [] OTHER -> [id |-> oldID, ret |-> PanicValue]

(***************************************************************************)
(* The resource schema of the model                                        *)
(***************************************************************************)
\* bound: the longest list or set of objects
MaxElems == 2

\* bound: the longest list given to processIgnoreOrderIfEnabled
MaxTags == 3

SeqsUpTo(S, n) == UNION {[1..k -> S] : k \in 0..n}

\* a map literal from a sequence of <<key, value>> pairs
MapOf(pairs) ==
  MapV([key \in {pairs[i][1] : i \in 1..Len(pairs)} |->
          pairs[CHOOSE i \in 1..Len(pairs) : pairs[i][1] = key][2]])

ruleProperties ==
  <<Primitive("name", TypeString), Primitive("port", TypeInt), WriteOnlyString("token")>>

nodeProperties == <<Primitive("name", TypeString), WriteOnlyString("token")>>

cfgProperties ==
  <<Primitive("zone", TypeString), Primitive("size", TypeInt), WriteOnlyString("token")>>

plainProperties ==
  <<Property("ruleName", "rule_name", TypeString, FALSE, FALSE, "", <<>>, FALSE),
    Primitive("size", TypeInt), WriteOnlyString("token")>>

brokenProperties == <<Primitive("name", TypeString), Primitive("opaque", "unknown")>>

resourceSchema ==
  <<Primitive("id", TypeString),
    Primitive("name", TypeString),
    Primitive("size", TypeInt),
    Primitive("ratio", TypeFloat),
    Primitive("live", TypeBool),
    WriteOnlyString("secret"),
    Property("tags", "tags", TypeList, FALSE, TRUE, TypeString, <<>>, FALSE),
    Property("rules", "rules", TypeList, FALSE, FALSE, TypeObject, ruleProperties, FALSE),
    Property("nodes", "nodes", TypeSet, FALSE, FALSE, TypeObject, nodeProperties, FALSE),
    Property("cfg", "cfg", TypeObject, FALSE, FALSE, "", cfgProperties, TRUE),
    Property("plain", "plain", TypeObject, FALSE, FALSE, "", plainProperties, FALSE),
    Property("broken", "broken", TypeList, FALSE, FALSE, TypeObject, brokenProperties, FALSE),
    Property("brokenSet", "brokenSet", TypeSet, FALSE, FALSE, TypeObject, brokenProperties, FALSE),
    Property("zone", "zone", TypeObject, FALSE, FALSE, "", brokenProperties, FALSE),
    Property("weird", "weird", TypeList, FALSE, FALSE, "", <<>>, FALSE),
    Property("meta", "meta", TypeObject, FALSE, FALSE, "", cfgProperties, FALSE),
    Property("vault", "vault", TypeObject, TRUE, FALSE, "", cfgProperties, FALSE)>>

\* resourceSchema.getProperty(propertyName): an error when it is not declared
getProperty(schema, propertyName) ==
  IF PropertyNamed(schema, propertyName) = Nil
  THEN Ret(Nil, ErrV("property with name not existing", propertyName))
  ELSE Ret(PropertyNamed(schema, propertyName), Nil)

(***************************************************************************)
(* The inputs of the model: remote payload values (decoded JSON, or what   *)
(* deepConvertArrayToSet made of it) and local state values, per property  *)
(***************************************************************************)
StringValues == {Nil, StrV("a"), StrV("b")}

\* remote elements of "rules"
RemoteRules ==
  {MapOf(<<<<"name", StrV("a")>>, <<"port", FloatV(10)>>>>),
   MapOf(<<<<"name", StrV("b")>>, <<"port", FloatV(15)>>, <<"token", StrV("a")>>>>),
   MapOf(<<<<"name", StrV("a")>>, <<"port", IntV(1)>>, <<"token", StrV("b")>>>>)}

\* local elements of "rules"
LocalRules ==
  {MapOf(<<<<"name", StrV("a")>>, <<"port", IntV(1)>>, <<"token", StrV("b")>>>>),
   MapOf(<<<<"name", StrV("b")>>, <<"port", IntV(2)>>, <<"token", Nil>>>>)}

\* remote elements of "nodes"; {hg, nh} and {fr, py} have the same
\* hashComplexObject (3379488069) and names of different hashes
RemoteNodes ==
  {MapOf(<<<<"name", StrV("hg")>>, <<"token", StrV("nh")>>>>),
   MapOf(<<<<"name", StrV("fr")>>, <<"token", StrV("py")>>>>),
   MapOf(<<<<"name", StrV("a")>>, <<"token", StrV("b")>>>>),
   MapOf(<<<<"name", StrV("hg")>>>>),
   MapOf(<<<<"name", StrV("hg")>>, <<"extra", StrV("a")>>>>)}

\* local elements of "nodes"
LocalNodes ==
  {MapOf(<<<<"name", StrV("hg")>>, <<"token", StrV("nh")>>>>),
   MapOf(<<<<"name", StrV("fr")>>, <<"token", StrV("py")>>>>),
   MapOf(<<<<"name", StrV("a")>>, <<"token", StrV("b")>>>>)}

\* elements of "broken" and "brokenSet"
BrokenElems == {MapOf(<<<<"name", StrV("a")>>>>), MapOf(<<<<"name", StrV("b")>>>>)}

Lists(elems) == {ListV(s) : s \in SeqsUpTo(elems, MaxElems)}

\* the local sets over elems, built by the hash function the schema gave them
Sets(elems) ==
  {NewSetOf(F, s) : F \in {"hashComplexObject", "hashByName"}, s \in SeqsUpTo(elems, MaxElems)}

RemoteValues(name) ==
  CASE name \in {"name", "secret"} -> StringValues
    [] name = "size" -> {Nil, FloatV(10), FloatV(15), FloatV(-15), IntV(1)}
    [] name = "ratio" -> {Nil, FloatV(15), FloatV(20)}
    [] name = "live" -> {Nil, BoolV(TRUE), BoolV(FALSE)}
    [] name = "tags" -> {Nil} \cup Lists({StrV("a"), StrV("b")})
    [] name = "rules" -> {Nil} \cup Lists(RemoteRules)
    [] name = "nodes" -> {Nil} \cup Lists(RemoteNodes)
    [] name \in {"cfg", "meta"} ->
         {Nil,
          MapOf(<<<<"zone", StrV("a")>>, <<"size", FloatV(10)>>, <<"token", StrV("b")>>>>),
          MapOf(<<<<"zone", StrV("a")>>, <<"size", IntV(1)>>, <<"token", StrV("a")>>>>),
          MapOf(<<<<"zone", StrV("b")>>>>)}
    [] name = "vault" -> {Nil, MapOf(<<<<"zone", StrV("a")>>>>),
                          MapOf(<<<<"zone", StrV("b")>>, <<"size", IntV(2)>>, <<"token", StrV("b")>>>>)}
    [] name = "plain" -> {Nil,
                          MapOf(<<<<"ruleName", StrV("a")>>, <<"size", FloatV(10)>>>>),
                          MapOf(<<<<"ruleName", StrV("a")>>, <<"size", IntV(1)>>, <<"token", StrV("a")>>>>),
                          MapOf(<<<<"rule_name", StrV("a")>>, <<"size", IntV(1)>>, <<"token", StrV("b")>>>>)}
    [] name \in {"broken", "brokenSet"} -> {Nil} \cup Lists(BrokenElems)
    [] name = "zone" -> {Nil} \cup BrokenElems
    [] name = "weird" -> {Nil, ListV(<<>>), ListV(<<StrV("a")>>)}
    [] OTHER -> {Nil}

LocalValues(name) ==
  CASE name \in {"name", "secret"} -> StringValues
    [] name = "size" -> {Nil, IntV(1), IntV(2)}
    [] name = "ratio" -> {Nil, FloatV(15)}
    [] name = "live" -> {Nil, BoolV(TRUE)}
    [] name = "tags" -> {Nil} \cup Lists({StrV("a"), StrV("b")})
    [] name = "rules" -> {Nil} \cup Lists(LocalRules)
    [] name = "nodes" -> {Nil} \cup Sets(LocalNodes)
    [] name = "cfg" ->
         {Nil,
          ListV(<<MapOf(<<<<"zone", StrV("a")>>, <<"size", IntV(1)>>, <<"token", StrV("a")>>>>)>>),
          MapOf(<<<<"zone", StrV("a")>>, <<"size", IntV(1)>>, <<"token", StrV("a")>>>>),
          ListV(<<>>)}
    [] name = "meta" ->
         {Nil,
          MapOf(<<<<"zone", StrV("a")>>, <<"size", IntV(1)>>, <<"token", StrV("a")>>>>),
          MapOf(<<<<"zone", StrV("b")>>, <<"size", IntV(2)>>, <<"token", Nil>>>>)}
    [] name = "vault" -> {Nil,
                          MapOf(<<<<"zone", StrV("b")>>, <<"size", IntV(2)>>, <<"token", StrV("b")>>>>)}
    [] name = "plain" -> {Nil,
                          MapOf(<<<<"rule_name", StrV("a")>>, <<"size", IntV(1)>>, <<"token", StrV("b")>>>>),
                          MapOf(<<<<"ruleName", StrV("a")>>, <<"size", IntV(1)>>, <<"token", StrV("a")>>>>)}
    [] name = "broken" -> {Nil} \cup Lists(BrokenElems)
    [] name = "brokenSet" -> {Nil} \cup Sets(BrokenElems)
    [] name = "zone" -> {Nil} \cup BrokenElems
    [] OTHER -> {Nil}

\* the lists given to processIgnoreOrderIfEnabled
TagLists == {ListV(s) : s \in SeqsUpTo({StrV("a"), StrV("b"), StrV("c")}, MaxTags)}

\* the payloads given to setStateID
IDPayloads ==
  {MapV(EmptyMap), MapOf(<<<<"name", StrV("a")>>>>)}
  \cup {MapOf(<<<<"id", v>>, <<"name", StrV("a")>>>>) :
          v \in {Nil, IntV(42), IntV(-7), FloatV(420), FloatV(425), FloatV(-15), StrV("a"),
                 BoolV(TRUE), ListV(<<>>)}}

\* bound: the most properties a payload given to the state writer holds
MaxPayload == 3

UpdateKeys == {"id", "name", "secret", "tags", "broken", "weird", "extra"}

UpdateValues(key) ==
  CASE key = "name" -> {Nil, StrV("a")}
    [] key = "tags" -> {ListV(<<StrV("a"), StrV("b")>>), ListV(<<StrV("b"), StrV("c")>>)}
    [] key = "broken" -> {ListV(<<MapOf(<<<<"name", StrV("a")>>>>)>>)}
    [] key = "weird" -> {ListV(<<>>)}
    [] OTHER -> {StrV("a")}

\* the payloads given to updateStateWithPayloadDataAndOptions: up to
\* MaxPayload properties, each with a value of its key's domain
UpdatePayloads ==
  UNION {{MapV(f) : f \in {g \in [K -> UNION {UpdateValues(key) : key \in K}] :
                              \A key \in K : g[key] \in UpdateValues(key)}} :
           K \in {K \in SUBSET UpdateKeys : Cardinality(K) <= MaxPayload}}

\* the local states the state writer starts from
LocalStates ==
  {EmptyMap,
   MapOf(<<<<"name", StrV("b")>>, <<"secret", StrV("b")>>,
           <<"tags", ListV(<<StrV("b"), StrV("a")>>)>>>>).v}

\* the schemas given to setStateID: the resource schema, and one with no
\* identifier property
NoIDSchema == SubSeq(resourceSchema, 2, 3)

ConvertInputs ==
  UNION {{[op |-> "convert", property |-> resourceSchema[i], remote |-> r, local |-> l] :
            r \in RemoteValues(resourceSchema[i].Name), l \in LocalValues(resourceSchema[i].Name)} :
           i \in 1..Len(resourceSchema)}

ReorderInputs ==
  {[op |-> "reorder", property |-> PropertyNamed(resourceSchema, "tags"), prior |-> p, remote |-> r] :
     p \in {Nil} \cup TagLists, r \in {Nil} \cup TagLists}

IDInputs ==
  {[op |-> "setStateID", schema |-> sch, payload |-> p] :
     sch \in {resourceSchema, NoIDSchema}, p \in IDPayloads}

UpdateInputs ==
  {[op |-> "update", payload |-> p, state |-> st, ignoreListOrderEnabled |-> b, schemaErr |-> e] :
     p \in UpdatePayloads, st \in LocalStates, b \in BOOLEAN, e \in BOOLEAN}

(***************************************************************************)
(* ResourceData                                                            *)
(***************************************************************************)
\* resourceLocalData.Get(key): nil when the field was never set
ResourceDataGet(data, key) == MapGet(data, key)

\* resourceLocalData.Set(key, value): the data afterwards and the error; a
\* Go error is no value of any field, so storing one fails
ResourceDataSet(data, key, value) ==
  IF value.k = "error" THEN [data |-> data, err |-> ErrV("invalid value for field", key)]
  ELSE [data |-> MapPut(data, key, value), err |-> Nil]

\* lines 558-561
setResourceDataProperty(schemaDefinitionProperty, value, resourceLocalData) ==
  ResourceDataSet(resourceLocalData, GetTerraformCompliantPropertyName(schemaDefinitionProperty), value)

\* lines 144-151: the conversion r of the property's value is stored
updateStore(property, r, resourceLocalData) ==
  IF r.panic THEN [data |-> resourceLocalData, err |-> Nil, panic |-> TRUE]
  ELSE IF r.err # Nil THEN [data |-> resourceLocalData, err |-> r.err, panic |-> FALSE]
  ELSE IF r.val = Nil THEN [data |-> resourceLocalData, err |-> Nil, panic |-> FALSE]
  ELSE [data |-> setResourceDataProperty(property, r.val, resourceLocalData).data,
        err |-> setResourceDataProperty(property, r.val, resourceLocalData).err,
        panic |-> FALSE]

\* lines 136-142: the conversion of propValue, the remote value after the
\* ignore-order policy
updateConvert(property, propValue, propertyLocalStateValue) ==
  IF propValue = PanicValue THEN Panic
  ELSE convertPayloadToLocalStateDataValue(property, propValue, propertyLocalStateValue, TRUE)

\* lines 136-151, for a declared property that is not the id
updateDeclared(property, propertyRemoteValue, propertyLocalStateValue, resourceLocalData, ignoreListOrderEnabled) ==
  updateStore(property,
    updateConvert(property,
      IF ignoreListOrderEnabled /\ shouldIgnoreOrder(property)
      THEN processIgnoreOrderIfEnabled(property, propertyLocalStateValue, propertyRemoteValue)
      ELSE propertyRemoteValue,
      propertyLocalStateValue),
    resourceLocalData)

\* a property the schema does not declare ends the loop with the error
updatePropertyStrict(schema, remoteData, resourceLocalData, ignoreListOrderEnabled, propertyName) ==
  IF getProperty(schema, propertyName).err # Nil
  THEN [data |-> resourceLocalData, err |-> getProperty(schema, propertyName).err, panic |-> FALSE]
  ELSE IF isPropertyNamedID(getProperty(schema, propertyName).val)
  THEN [data |-> resourceLocalData, err |-> Nil, panic |-> FALSE]
  ELSE updateDeclared(getProperty(schema, propertyName).val,
         remoteData[propertyName],
         ResourceDataGet(resourceLocalData,
           GetTerraformCompliantPropertyName(getProperty(schema, propertyName).val)),
         resourceLocalData, ignoreListOrderEnabled)

\* lines 127-151: one iteration of the range loop, for propertyName: the
\* local data afterwards, the error returned (Nil: the loop goes on) and
\* whether the iteration panicked
updateProperty(schema, remoteData, resourceLocalData, ignoreListOrderEnabled, propertyName) ==
  IF getProperty(schema, propertyName).err # Nil
  THEN [data |-> resourceLocalData, err |-> Nil, panic |-> FALSE]
  ELSE IF isPropertyNamedID(getProperty(schema, propertyName).val)
  THEN [data |-> resourceLocalData, err |-> Nil, panic |-> FALSE]
  ELSE updateDeclared(getProperty(schema, propertyName).val,
         remoteData[propertyName],
         ResourceDataGet(resourceLocalData,
           GetTerraformCompliantPropertyName(getProperty(schema, propertyName).val)),
         resourceLocalData, ignoreListOrderEnabled)

(***************************************************************************)
(* The state machine: one operation per behaviour                          *)
(***************************************************************************)
\* the function returned by crudWithContext has not been called
NoInvocation ==
  /\ invocation = 0
  /\ wrapper = "idle"
  /\ ctxDone = FALSE
  /\ goroutines = <<>>
  /\ resourceData = 0
  /\ diags = "none"

Init ==
  /\ input \in ConvertInputs \cup ReorderInputs \cup IDInputs \cup UpdateInputs
  /\ pc = "start"
  /\ result = Nil
  /\ state = IF input.op = "update" THEN input.state ELSE EmptyMap
  /\ id = <<>>
  /\ todo = {}
  /\ ret = Nil
  /\ NoInvocation

\* a call of convertPayloadToLocalStateDataValue as the state writer makes it
Convert ==
  /\ pc = "start" /\ input.op = "convert"
  /\ result' = convertPayloadToLocalStateDataValue(input.property, input.remote, input.local, TRUE)
  /\ pc' = "done"
  /\ UNCHANGED <<input, state, id, todo, ret>>
  /\ UNCHANGED crudVars

\* a call of processIgnoreOrderIfEnabled
Reorder ==
  /\ pc = "start" /\ input.op = "reorder"
  /\ result' = processIgnoreOrderIfEnabled(input.property, input.prior, input.remote)
  /\ pc' = "done"
  /\ UNCHANGED <<input, state, id, todo, ret>>
  /\ UNCHANGED crudVars

\* a call of setStateID
SetStateID ==
  /\ pc = "start" /\ input.op = "setStateID"
  /\ LET r == setStateID(input.schema, id, input.payload.v)
     IN id' = r.id /\ ret' = r.ret
  /\ pc' = "done"
  /\ UNCHANGED <<input, result, state, todo>>
  /\ UNCHANGED crudVars

\* lines 122-125: updateStateWithPayloadDataAndOptions reads the schema
UpdateBegin ==
  /\ pc = "start" /\ input.op = "update"
  /\ IF input.schemaErr
     THEN pc' = "done" /\ ret' = ErrV("resource schema", "") /\ todo' = todo
     ELSE pc' = "update" /\ ret' = ret /\ todo' = DOMAIN input.payload.v
  /\ UNCHANGED <<input, result, state, id>>
  /\ UNCHANGED crudVars

\* lines 126-152: one iteration of the loop; range visits the properties of
\* the payload in any order
UpdateStep(propertyName, r) ==
  /\ state' = r.data
  /\ todo' = todo \ {propertyName}
  /\ IF r.panic THEN pc' = "done" /\ ret' = PanicValue
     ELSE IF r.err # Nil THEN pc' = "done" /\ ret' = r.err
     ELSE pc' = pc /\ ret' = ret

UpdateProperty ==
  /\ pc = "update"
  /\ \E propertyName \in todo :
       UpdateStep(propertyName,
                  updateProperty(resourceSchema, input.payload.v, state,
                                 input.ignoreListOrderEnabled, propertyName))
  /\ UNCHANGED <<input, result, id>>
  /\ UNCHANGED crudVars

\* line 153: the loop is over
UpdateReturn ==
  /\ pc = "update" /\ todo = {}
  /\ pc' = "done"
  /\ ret' = Nil
  /\ UNCHANGED <<input, result, state, id, todo>>
  /\ UNCHANGED crudVars

Next == Convert \/ Reorder \/ SetStateID \/ UpdateBegin \/ UpdateProperty \/ UpdateReturn

Spec == Init /\ [][Next]_vars

(***************************************************************************)
(* crudWithContext (lines 21-35). The host calls the returned function on  *)
(* the same ResourceData, one call after the other.                        *)
(***************************************************************************)
\* how many calls the host makes
MaxCalls == 3

\* how many times one crudFunc execution reads or writes the ResourceData
MaxSteps == 2

CrudInit ==
  /\ input = [op |-> "crud"]
  /\ pc = "start"
  /\ result = Nil
  /\ state = EmptyMap
  /\ id = <<>>
  /\ todo = {}
  /\ ret = Nil
  /\ NoInvocation

\* lines 23-24: the goroutine the call starts, about to run crudFunc, and its
\* empty channel of capacity 1
NewGoroutine == [pc |-> "crudFunc", left |-> MaxSteps, errChan |-> <<>>]

\* lines 22-25: the host calls the function with a fresh context; the call
\* makes errChan, starts the goroutine and waits in the select
CrudCall ==
  /\ wrapper = "idle" /\ invocation < MaxCalls
  /\ invocation' = invocation + 1
  /\ goroutines' = Append(goroutines, NewGoroutine)
  /\ ctxDone' = FALSE
  /\ wrapper' = "select"
  /\ UNCHANGED <<resourceData, diags>>
  /\ UNCHANGED mergeVars

\* line 24: crudFunc(data, i), run by goroutine k, reads or writes data
CrudAccess(k) ==
  /\ goroutines[k].pc = "crudFunc" /\ goroutines[k].left > 0
  /\ goroutines' = [goroutines EXCEPT ![k].left = @ - 1]
  /\ resourceData' = k
  /\ UNCHANGED <<invocation, wrapper, ctxDone, diags>>
  /\ UNCHANGED mergeVars

\* line 24: crudFunc returns err and the goroutine sends it; errChan has
\* room for it, so the send never waits for a receiver
CrudFuncReturn(k, err) ==
  /\ goroutines[k].pc = "crudFunc"
  /\ goroutines' = [goroutines EXCEPT ![k] = [pc |-> "exit", left |-> 0, errChan |-> <<err>>]]
  /\ UNCHANGED <<invocation, wrapper, ctxDone, resourceData, diags>>
  /\ UNCHANGED mergeVars

\* the deadline of the current call's context passes, or the host cancels it
CtxDone ==
  /\ wrapper = "select" /\ ~ctxDone
  /\ ctxDone' = TRUE
  /\ UNCHANGED <<invocation, wrapper, goroutines, resourceData, diags>>
  /\ UNCHANGED mergeVars

\* lines 26-27: case <-ctx.Done(): the call returns the timeout diagnostic;
\* nothing stops or awaits the goroutine
SelectCtxDone ==
  /\ wrapper = "select" /\ ctxDone
  /\ diags' = "timeout"
  /\ wrapper' = "idle"
  /\ UNCHANGED <<invocation, ctxDone, goroutines, resourceData>>
  /\ UNCHANGED mergeVars

\* lines 28-33: case err := <-errChan: the call returns diag.FromErr(err),
\* or nil when err is nil
SelectErrChan ==
  /\ wrapper = "select" /\ goroutines[invocation].errChan # <<>>
  /\ diags' = IF Head(goroutines[invocation].errChan) # Nil THEN "FromErr" ELSE "nil"
  /\ goroutines' = [goroutines EXCEPT ![invocation].errChan = <<>>]
  /\ wrapper' = "idle"
  /\ UNCHANGED <<invocation, ctxDone, resourceData>>
  /\ UNCHANGED mergeVars

CrudNext ==
  \/ CrudCall
  \/ \E k \in 1..Len(goroutines) : CrudAccess(k)
  \/ \E k \in 1..Len(goroutines) : \E err \in {Nil, ErrV("crudFunc", "")} : CrudFuncReturn(k, err)
  \/ CtxDone
  \/ SelectCtxDone
  \/ SelectErrChan

CrudSpec == CrudInit /\ [][CrudNext]_vars

(***************************************************************************)
(* Properties of the operations                                            *)
(***************************************************************************)
Done(op) == pc = "done" /\ input.op = op

Range(s) == {s[i] : i \in 1..Len(s)}

\* the items of a set
Items(set) == {set.v.m[c] : c \in DOMAIN set.v.m}

\* m[key] when m is a map, nil otherwise
Field(m, key) == IF m.k = "map" THEN MapGet(m.v, key) ELSE Nil

LenOf(v) == IF v = Nil THEN 0 ELSE Len(v.v)

ElemAt(v, i) == IF v # Nil /\ i <= Len(v.v) THEN v.v[i] ELSE Nil

\* the elements of the remote collection and of the local set of a call
RemoteElems == IF input.remote = Nil THEN {} ELSE Range(input.remote.v)

LocalElems == IF input.local = Nil THEN {} ELSE Items(input.local)

\* a call on a set-of-objects property returned a set
SetCase ==
  /\ Done("convert")
  /\ isSetOfObjectsProperty(input.property) /\ ~ input.property.WriteOnly
  /\ ~ result.panic /\ result.err = Nil /\ result.val.k = "set"

\* item is what merging the remote element r against a prior state of the
\* call (a local element, or none) gives
MergeOf(r, item) ==
  \E p \in LocalElems \cup {Nil} :
    convertObjectToLocalStateData(input.property, r, p) = Ret(item, Nil)

\* C1: set completeness.  When a set-of-objects property is converted, every
\* element of the remote collection appears exactly once in the output set
\* (exactly one item of the output is a merge of it), and every item of the
\* output is the merge of a remote element, so that an element present only
\* in the local set never appears.
C1_SetCompleteness ==
  SetCase =>
    /\ \A r \in RemoteElems :
         Cardinality({item \in Items(result.val) : MergeOf(r, item)}) = 1
    /\ \A item \in Items(result.val) : \E r \in RemoteElems : MergeOf(r, item)

\* the first element of localList whose hashComplexObject equals v1's, or nil
FirstMatch(v1, localList) ==
  IF \E j \in 1..Len(localList) : hashComplexObject(localList[j]) = hashComplexObject(v1)
  THEN localList[CHOOSE j \in 1..Len(localList) :
                   /\ hashComplexObject(localList[j]) = hashComplexObject(v1)
                   /\ \A k \in 1..(j - 1) :
                        hashComplexObject(localList[k]) # hashComplexObject(v1)]
  ELSE Nil

\* the output set when each element of remoteList is merged against its
\* first match in localList only
PairedSet(property, remoteList, localList) ==
  SetAddAll(NewSet("hashComplexObject"),
    [i \in 1..Len(remoteList) |->
       convertObjectToLocalStateData(property, remoteList[i],
                                     FirstMatch(remoteList[i], localList)).val])

\* C2: set match pairing.  Each remote element of a set-of-objects merge is
\* merged against exactly one prior state, the first local element (in the
\* order of the local collection) with the same hashComplexObject, or nil
\* when there is none: the output is the set of those merges.
C2_SetMatchPairing ==
  SetCase =>
    result.val =
      PairedSet(input.property,
        SetList(deepConvertArrayToSet(input.property,
                  IF input.remote = Nil THEN ListV(<<>>) ELSE input.remote).val),
        IF input.local = Nil THEN <<>> ELSE SetList(input.local))

\* the object a local state value holds: itself, or the item of a
\* single-element list
LocalObject(l) ==
  IF l.k = "map" THEN l
  ELSE IF l.k = "list" /\ Len(l.v) = 1 THEN l.v[1]
  ELSE Nil

\* the object o, merged under property against the prior state l, has the
\* value l has for every write-only property
KeepsWriteOnly(property, o, l) ==
  \A i \in 1..Len(property.Properties) :
    property.Properties[i].WriteOnly =>
      Field(o, property.Properties[i].TFName) =
        Field(LocalObject(l), property.Properties[i].Name)

\* a call returned a value and no error
Succeeded == ~ result.panic /\ result.err = Nil /\ result.val.k # "error"

\* C3: write-only invariance.  A write-only property converts to its local
\* state value, with no error, whatever the remote value; and so does every
\* write-only property of an object, of an element of a list of objects and
\* of an element of a set of objects.
C3_WriteOnlyInvariance ==
  Done("convert") =>
    /\ input.property.WriteOnly => result = Ret(input.local, Nil)
    /\ (~ input.property.WriteOnly /\ input.property.Type = TypeObject /\ Succeeded) =>
         KeepsWriteOnly(input.property,
                        IF input.property.Legacy THEN result.val.v[1] ELSE result.val,
                        input.local)
    /\ (isArrayOfObjectsProperty(input.property) /\ Succeeded) =>
         \A i \in 1..Len(result.val.v) :
           KeepsWriteOnly(input.property, result.val.v[i], ElemAt(input.local, i))
    /\ SetCase =>
         \A item \in Items(result.val) :
           \E l \in LocalElems \cup {Nil} : KeepsWriteOnly(input.property, item, l)

\* a write-only property of an element of a list was given a remote value
\* that differs from the local one, and the local one was returned
C3_Witness ==
  /\ Done("convert") /\ input.property.Name = "rules" /\ Succeeded
  /\ \E i \in 1..Len(result.val.v) :
       /\ Field(ElemAt(input.remote, i), "token") \notin {Nil, Field(ElemAt(input.local, i), "token")}
       /\ Field(ElemAt(input.local, i), "token") # Nil
       /\ Field(result.val.v[i], "token") = Field(ElemAt(input.local, i), "token")

\* the errors of the nested merges of a call: the conversions of the
\* properties of an object, the merges of the elements of a list of objects
\* by position, the merges of the elements of a set of objects
NestedErrors ==
  LET property == input.property
      all ==
        IF property.Type = TypeObject
        THEN {convertPayloadToLocalStateDataValue(property.Properties[i],
                Field(input.remote, property.Properties[i].Name),
                Field(LocalObject(input.local), property.Properties[i].Name), FALSE) :
                i \in 1..Len(property.Properties)}
        ELSE IF isArrayOfObjectsProperty(property)
        THEN {convertObjectToLocalStateData(property, ElemAt(input.remote, i), ElemAt(input.local, i)) :
                i \in 1..(IF LenOf(input.remote) > LenOf(input.local)
                          THEN LenOf(input.remote) ELSE LenOf(input.local))}
        ELSE IF isSetOfObjectsProperty(property)
        THEN {convertObjectToLocalStateData(property, r, Nil) : r \in RemoteElems}
        ELSE {}
  IN {r.err : r \in {x \in all : ~ x.panic /\ x.err # Nil}}

\* C4: error propagation.  When a nested merge of a call fails, the call
\* returns that error as its error and no value.
C4_ErrorPropagation ==
  (Done("convert") /\ ~ input.property.WriteOnly /\ ~ result.panic /\ NestedErrors # {}) =>
    /\ result.err \in NestedErrors
    /\ result.val = Nil

\* C5: reorder policy.  With both lists given, the result is: for each item
\* of the prior list, in order, that has an equal item in the remote list,
\* that item; then every remote item equal to no prior item, in remote order.
C5_ReorderPolicy ==
  (Done("reorder") /\ input.prior # Nil /\ input.remote # Nil) =>
    result = ListV(SelectSeq(input.prior.v, LAMBDA x : x \in Range(input.remote.v))
                   \o SelectSeq(input.remote.v, LAMBDA y : y \notin Range(input.prior.v)))

\* prior [a, b] and remote [b, a, c] give [a, b, c]
C5_Witness ==
  /\ Done("reorder")
  /\ input.prior = ListV(<<StrV("a"), StrV("b")>>)
  /\ input.remote = ListV(<<StrV("b"), StrV("a"), StrV("c")>>)
  /\ result = ListV(<<StrV("a"), StrV("b"), StrV("c")>>)

\* C6, as claimed: with a nil input, the other input is returned: the prior
\* list when the remote value is nil, the remote value when the prior is nil.
C6_NilReturnsOther ==
  Done("reorder") =>
    /\ input.prior = Nil => result = input.remote
    /\ (input.remote = Nil /\ input.prior # Nil) => result = input.prior

\* C6, amended: with a nil input (the prior value, the remote value or
\* both), the remote value is returned unchanged, nil when it is nil.
C6_NilReturnsRemote ==
  (Done("reorder") /\ (input.prior = Nil \/ input.remote = Nil)) => result = input.remote

\* the remote value is nil, the prior list is not, and nil is returned
C6_Witness ==
  /\ Done("reorder")
  /\ input.remote = Nil /\ input.prior = ListV(<<StrV("a"), StrV("b")>>)
  /\ result = Nil

\* the merge of the elements at index i of a list-of-objects call
ElementMerge(i) ==
  convertObjectToLocalStateData(input.property, ElemAt(input.remote, i), ElemAt(input.local, i))

LongerLen == IF LenOf(input.remote) > LenOf(input.local) THEN LenOf(input.remote) ELSE LenOf(input.local)

\* C7: positional list reconciliation.  When the merges of the elements
\* succeed, the merged list of a list-of-objects property is as long as the
\* longer of the remote and the local list, and its element i is the object
\* merge of remote[i] against local[i], each nil past the end of its list.
C7_PositionalList ==
  (/\ Done("convert")
   /\ isArrayOfObjectsProperty(input.property) /\ ~ input.property.WriteOnly
   /\ \A i \in 1..LongerLen : ~ ElementMerge(i).panic /\ ElementMerge(i).err = Nil) =>
    /\ Succeeded /\ result.val.k = "list"
    /\ Len(result.val.v) = LongerLen
    /\ \A i \in 1..LongerLen : result.val.v[i] = ElementMerge(i).val

\* a remote list of two elements merged against a local list of one
C7_Witness ==
  /\ Done("convert") /\ input.property.Name = "rules"
  /\ LenOf(input.remote) = 2 /\ LenOf(input.local) = 1
  /\ Succeeded /\ Len(result.val.v) = 2
  /\ Field(result.val.v[1], "token") = Field(input.local.v[1], "token")
  /\ Field(result.val.v[2], "name") = Field(input.remote.v[2], "name")

\* t is a value tree of the property: every declared property present, each
\* value of the Go type its schema type is stored as
RECURSIVE WellFormed(_, _)
WellFormedObject(properties, t) ==
  /\ t.k = "map"
  /\ DOMAIN t.v = {properties[i].Name : i \in 1..Len(properties)}
  /\ \A i \in 1..Len(properties) : WellFormed(properties[i], t.v[properties[i].Name])

WellFormed(property, t) ==
  CASE property.Type = TypeString -> t.k = "string"
    [] property.Type = TypeInt -> t.k = "int"
    [] property.Type = TypeFloat -> t.k = "float64"
    [] property.Type = TypeBool -> t.k = "bool"
    [] property.Type = TypeObject -> WellFormedObject(property.Properties, t)
    [] property.Type \in {TypeList, TypeSet} ->
         /\ t.k = (IF property.Type = TypeList THEN "list" ELSE "set")
         /\ \/ /\ property.ArrayItemsType = TypeObject
               /\ \A x \in (IF t.k = "list" THEN Range(t.v) ELSE Items(t)) :
                    WellFormedObject(property.Properties, x)
            \/ /\ property.ArrayItemsType = TypeString
               /\ \A x \in (IF t.k = "list" THEN Range(t.v) ELSE Items(t)) : x.k = "string"
    [] OTHER -> FALSE

RECURSIVE PlainChildren(_)
PlainChildren(property) ==
  \A i \in 1..Len(property.Properties) :
    /\ property.Properties[i].TFName = property.Properties[i].Name
    /\ property.Properties[i].Type # TypeSet
    /\ ~ property.Properties[i].Legacy
    /\ PlainChildren(property.Properties[i])

C9_IdentifierExtraction ==
  (Done("setStateID") /\ input.schema = resourceSchema) =>
    LET value == MapGet(input.payload.v, "id")
    IN CASE value = Nil ->
              /\ ret = ErrV("is missing mandatory identifier property", "id")
              /\ id = <<>>
         [] value.k = "int" -> ret = Nil /\ id = Itoa(value.v)
         [] value.k = "float64" -> ret = Nil /\ id = Itoa(Trunc(value.v))
         [] value.k = "string" -> ret = Nil /\ id = Bytes[value.v]
         [] OTHER -> ret.k = "error" /\ id = <<>>

DeclaredNames == {resourceSchema[i].Name : i \in 1..Len(resourceSchema)}

\* a step of the loop that visits a property the schema does not declare
\* writes nothing, returns nothing and leaves the loop running; the loop
\* returns nil only when every property was visited
SkipsUnknown ==
  pc = "update" =>
    /\ \A n \in todo \ todo' :
         n \notin DeclaredNames => state' = state /\ ret' = ret /\ pc' = "update"
    /\ (pc' = "done" /\ ret' = Nil) => todo = {}

\* when the call returned nil, the declared properties of the payload were
\* stored
OthersProcessed ==
  (Done("update") /\ ~ input.schemaErr /\ ret = Nil) =>
    /\ ("name" \in DOMAIN input.payload.v /\ input.payload.v["name"] # Nil) =>
         MapGet(state, "name") = input.payload.v["name"]
    /\ "tags" \in DOMAIN input.payload.v =>
         /\ MapGet(state, "tags").k = "list"
         /\ Range(MapGet(state, "tags").v) = Range(input.payload.v["tags"].v)

\* C10: unknown-property tolerance.  A property of the payload that the
\* schema does not declare is skipped: nothing is written to the local
\* state, no error is returned, and the other properties of the payload are
\* still processed, in whatever order the loop visits them.
C10_UnknownPropertyTolerance == [][SkipsUnknown]_vars /\ []OthersProcessed

\* a payload with an undeclared property was processed: the call returned
\* nil and the declared property next to it was stored
C10_Witness ==
  /\ Done("update") /\ ret = Nil /\ ~ input.schemaErr
  /\ "extra" \in DOMAIN input.payload.v
  /\ "name" \in DOMAIN input.payload.v /\ "tags" \in DOMAIN input.payload.v
  /\ "extra" \notin DOMAIN state
  /\ MapGet(state, "name") = StrV("a") /\ MapGet(input.state, "name") = StrV("b")

\* C11: no partial state update on failure.  When
\* updateStateWithPayloadDataAndOptions returns an error, the local state is
\* what it was before the call: no property visited earlier was written.
C11_NoPartialUpdate ==
  (Done("update") /\ ret.k = "error") => state = input.state

\* how many times x occurs in the sequence s
Count(s, x) == Cardinality({i \in 1..Len(s) : s[i] = x})

\* the list result is a permutation of the list remote
IsPermutation(res, remote) ==
  /\ res.k = "list"
  /\ Len(res.v) = Len(remote.v)
  /\ \A x \in Range(remote.v) \cup Range(res.v) : Count(res.v, x) = Count(remote.v, x)

\* C12, as claimed: with both lists given, duplicates included, the result
\* of processIgnoreOrderIfEnabled is a permutation of the remote list.
C12_ReorderPermutation ==
  (Done("reorder") /\ input.prior # Nil /\ input.remote # Nil) =>
    IsPermutation(result, input.remote)

\* C12, amended: with both lists given, the result is a permutation of the
\* remote list provided no item that occurs in both lists occurs more than
\* once in either of them.
C12_ReorderPermutationDistinct ==
  (/\ Done("reorder") /\ input.prior # Nil /\ input.remote # Nil
   /\ \A x \in Range(input.prior.v) \cap Range(input.remote.v) :
        Count(input.prior.v, x) = 1 /\ Count(input.remote.v, x) = 1) =>
    IsPermutation(result, input.remote)

\* a remote list with a new item twice was put in the order of the prior list
C12_Witness ==
  /\ Done("reorder")
  /\ input.prior = ListV(<<StrV("b"), StrV("a")>>)
  /\ input.remote = ListV(<<StrV("c"), StrV("a"), StrV("c")>>)
  /\ result = ListV(<<StrV("a"), StrV("c"), StrV("c")>>)

\* the goroutines that are inside crudFunc
Running == {k \in 1..Len(goroutines) : goroutines[k].pc = "crudFunc"}

\* C13: when the host calls the functions returned by crudWithContext on the
\* same ResourceData strictly one after another, at most one crudFunc
\* execution is in progress on it at any time, and once a call has returned
\* (the wrapper is idle again) the crudFunc it started is no longer running.
C13_SingleInFlight ==
  /\ Cardinality(Running) <= 1
  /\ wrapper = "idle" => Running = {}
====
